---- MODULE Spec2Model ----
(***************************************************************************)
(* Model of utils.py: BatteryDataLoader (load_battery_data,                *)
(* calculate_lifetime, extract_lifetimes_from_folder) and                  *)
(* StatisticalAnalyzer (bayesian_update, hypothesis_test_proportion).      *)
(*                                                                         *)
(* Every entry point is a static method without shared state.  A behaviour *)
(* of the model picks one entry point and its arguments in Init and then   *)
(* runs that entry point.  Real numbers are fixed-point integers:          *)
(* capacities are integers in an arbitrary unit, thresholds are tenths,    *)
(* probabilities are hundred-thousandths, z-statistics are tenths.         *)
(***************************************************************************)
EXTENDS Integers, Sequences, FiniteSets, TLC

VARIABLES
    op,                  \* the entry point this behaviour exercises
    pc,                  \* "ready", "loop" (inside the for loop), "done"
    capacity,            \* calculate_lifetime: argument capacity
    threshold,           \* calculate_lifetime: argument threshold (tenths)
    file,                \* load_battery_data: what file_path refers to
    files,               \* extract_lifetimes_from_folder: unit index -> file
    num_batteries,       \* extract_lifetimes_from_folder: argument
    i,                   \* extract_lifetimes_from_folder: loop variable
    lifetimes,           \* extract_lifetimes_from_folder: local list
    initial_capacities,  \* extract_lifetimes_from_folder: local list
    visited,             \* units whose loop body has been entered (history)
    prior_alpha,         \* bayesian_update: argument
    prior_beta,          \* bayesian_update: argument
    successes,           \* bayesian_update / hypothesis_test_proportion
    trials,              \* bayesian_update / hypothesis_test_proportion
    successes2,          \* second batch of the chained bayesian_update
    trials2,             \* second batch of the chained bayesian_update
    posterior,           \* results of the bayesian_update calls made so far
    p0,                  \* hypothesis_test_proportion: <<numerator, denominator>>
    alpha,               \* hypothesis_test_proportion: hundred-thousandths
    alternative,         \* hypothesis_test_proportion: argument
    ret                  \* outcome of the entry point: returned value or exception

vars == <<op, pc, capacity, threshold, file, files, num_batteries, i, lifetimes,
          initial_capacities, visited, prior_alpha, prior_beta, successes,
          trials, successes2, trials2, posterior, p0, alpha, alternative, ret>>

loaderVars == <<capacity, threshold, file, files, num_batteries>>
loopVars == <<i, lifetimes, initial_capacities, visited>>
bayesVars == <<prior_alpha, prior_beta, successes2, trials2, posterior>>
countVars == <<successes, trials>>
testVars == <<p0, alpha, alternative>>

----------------------------------------------------------------------------
(* Bounds of the model.                                                    *)

MaxLen == 3          \* longest capacity sequence given to calculate_lifetime
MaxCap == 3          \* largest capacity value given to calculate_lifetime
MaxRows == 2         \* longest column of a record given to load_battery_data
MaxBatteries == 3    \* largest num_batteries
MaxPrior == 2        \* largest prior parameter
MaxTrials == 3       \* largest number of trials of one batch
MaxDen == 4          \* largest denominator of p0

----------------------------------------------------------------------------
(* Outcomes of a call: a returned value or a raised exception.             *)

Return(v) == [exc |-> "None", val |-> v]
Raise(e) == [exc |-> e, val |-> <<>>]
Pending == [exc |-> "Pending", val |-> <<>>]

(* All sequences over vals of length 0..n.                                 *)
Columns(vals, n) == UNION {[1..k -> vals] : k \in 0..n}

----------------------------------------------------------------------------
(* BatteryDataLoader.calculate_lifetime                                    *)

\* threshold=0.8, in tenths
DefaultThreshold == 8

\* 0-based positions of an array of length n, as np.where reports them
Indices(n) == [k \in 1..n |-> k - 1]

\* BelowThreshold with <= in place of <
BelowThresholdInclusive(cap, thr) ==
    SelectSeq(Indices(Len(cap)), LAMBDA j : 10 * cap[j + 1] <= thr * cap[1])

\* np.where(capacity < target_capacity)[0]; target_capacity is
\* threshold * capacity[0] with threshold in tenths, so both sides are
\* compared after scaling by 10.
BelowThreshold(cap, thr) ==
    SelectSeq(Indices(Len(cap)), LAMBDA j : 10 * cap[j + 1] < thr * cap[1])

\* CalculateLifetime returning the number of cycles when nothing is below
CalculateLifetimeTotal(cap, thr) ==
    IF Len(cap) = 0
    THEN Raise("IndexError")
    ELSE LET below_threshold == BelowThreshold(cap, thr)
         IN  IF Len(below_threshold) > 0
             THEN Return(below_threshold[1])
             ELSE Return(Len(cap))

CalculateLifetime(cap, thr) ==
    IF Len(cap) = 0
    THEN Raise("IndexError")                      \* capacity[0] on an empty array
    ELSE LET below_threshold == BelowThreshold(cap, thr)
         IN  IF Len(below_threshold) > 0
             THEN Return(below_threshold[1])
             ELSE Return(Len(cap) - 1)

----------------------------------------------------------------------------
(* BatteryDataLoader.load_battery_data                                     *)

\* What scipy.io.loadmat finds at file_path: no file, a file it cannot
\* parse, or a dictionary from field names to columns (the [:, 0] slice of
\* each stored 2-D array).
NotFound == [kind |-> "NotFound", data |-> <<>>]
Malformed == [kind |-> "Malformed", data |-> <<>>]
Mat(d) == [kind |-> "Mat", data |-> d]

Fields == {"cycle", "capacity", "impedance"}

\* ZerosLike as a single zero
ZerosScalar(col) == <<0>>

\* np.zeros_like(capacity)
ZerosLike(col) == [k \in 1..Len(col) |-> 0]

\* LoadBatteryData indexing data['impedance'] without the membership test
LoadBatteryDataStrict(f) ==
    IF f.kind = "NotFound" THEN Raise("FileNotFoundError")
    ELSE IF f.kind = "Malformed" THEN Raise("ValueError")
    ELSE LET data == f.data
         IN  IF Fields \subseteq DOMAIN data
             THEN Return([cycle |-> data["cycle"],
                          capacity |-> data["capacity"],
                          impedance |-> data["impedance"]])
             ELSE Raise("KeyError")

LoadBatteryData(f) ==
    IF f.kind = "NotFound" THEN Raise("FileNotFoundError")
    ELSE IF f.kind = "Malformed" THEN Raise("ValueError")
    ELSE LET data == f.data
         IN  IF "cycle" \notin DOMAIN data THEN Raise("KeyError")
             ELSE IF "capacity" \notin DOMAIN data THEN Raise("KeyError")
             ELSE Return([cycle |-> data["cycle"],
                          capacity |-> data["capacity"],
                          impedance |-> IF "impedance" \in DOMAIN data
                                        THEN data["impedance"]
                                        ELSE ZerosLike(data["capacity"])])

----------------------------------------------------------------------------
(* StatisticalAnalyzer.bayesian_update                                     *)

\* BayesianUpdate adding the trials, not the failures, to beta
BayesianUpdateTrials(a, b, s, n) == <<a + s, b + n>>

\* BayesianUpdate subtracting posterior_alpha in place of successes
BayesianUpdateFromPosterior(a, b, s, n) == <<a + s, b + n - (a + s)>>

BayesianUpdate(a, b, s, n) ==
    LET posterior_alpha == a + s
        posterior_beta == b + n - s
    IN  <<posterior_alpha, posterior_beta>>

----------------------------------------------------------------------------
(* StatisticalAnalyzer.hypothesis_test_proportion                          *)
(*                                                                         *)
(* Floating-point values: a finite value (fixed point), +inf, -inf or nan. *)

Fin(v) == [kind |-> "fin", v |-> v]
PosInf == [kind |-> "inf", v |-> 0]
NegInf == [kind |-> "-inf", v |-> 0]
NaN == [kind |-> "nan", v |-> 0]

\* The probability 1 in hundred-thousandths (the literal 1 of 1 - norm.cdf)
One == 100000

\* alpha=0.05, in hundred-thousandths
DefaultAlpha == 5000

\* norm.cdf at 0.0, 0.1, ..., 4.9, rounded to five decimals
CdfTable ==
    <<50000, 53983, 57926, 61791, 65542, 69146, 72575, 75804, 78814, 81594,
      84134, 86433, 88493, 90320, 91924, 93319, 94520, 95543, 96407, 97128,
      97725, 98214, 98610, 98928, 99180, 99379, 99534, 99653, 99744, 99813,
      99865, 99903, 99931, 99952, 99966, 99977, 99984, 99989, 99993, 99995,
      99997, 99998, 99999, 99999, 99999, 100000, 100000, 100000, 100000,
      100000>>

\* norm.cdf of a z-statistic in tenths
NormCdf(z) ==
    CASE z.kind = "nan" -> NaN
      [] z.kind = "inf" -> Fin(One)
      [] z.kind = "-inf" -> Fin(0)
      [] OTHER ->
            LET m == IF z.v < 0 THEN -z.v ELSE z.v
                upper == IF m < Len(CdfTable) THEN CdfTable[m + 1] ELSE One
            IN  Fin(IF z.v < 0 THEN One - upper ELSE upper)

\* abs(z_stat)
FAbs(z) ==
    CASE z.kind = "nan" -> NaN
      [] z.kind \in {"inf", "-inf"} -> PosInf
      [] OTHER -> Fin(IF z.v < 0 THEN -z.v ELSE z.v)

\* 1 - p
OneMinus(p) == IF p.kind = "nan" THEN NaN ELSE Fin(One - p.v)

\* 2 * p
Twice(p) == IF p.kind = "nan" THEN NaN ELSE Fin(2 * p.v)

\* p_value < alpha; a comparison with nan is False
FLess(p, a) == p.kind = "fin" /\ p.v < a

\* x / sqrt(y) in tenths, rounded to the nearest tenth, for x >= 0, y > 0
DivSqrtTenths(x, y) ==
    CHOOSE q \in 0..(10 * x) :
        /\ 400 * x * x < (2 * q + 1) * (2 * q + 1) * y
        /\ q = 0 \/ (2 * q - 1) * (2 * q - 1) * y <= 400 * x * x

\* z_stat = (p_hat - p0) / se with p_hat = s / n, p0 = k / d and
\* se = sqrt(p0 * (1 - p0) / n) = sqrt(n * k * (d - k)) / (n * d), so
\* z_stat = (s * d - n * k) / sqrt(n * k * (d - k)).  se is a numpy float:
\* dividing by se = 0.0 gives +-inf or nan and no exception.
ZStat(s, n, p) ==
    LET k == p[1]
        d == p[2]
        diff == s * d - n * k            \* sign and size of p_hat - p0
        radicand == n * k * (d - k)      \* zero exactly when se is zero
    IN  IF radicand = 0
        THEN (IF diff > 0 THEN PosInf ELSE IF diff < 0 THEN NegInf ELSE NaN)
        ELSE IF diff < 0
             THEN Fin(-DivSqrtTenths(-diff, radicand))
             ELSE Fin(DivSqrtTenths(diff, radicand))

\* PValue with the two one-sided variants exchanged
PValueSwapped(z_stat, alt) ==
    IF alt = "greater" THEN NormCdf(z_stat)
    ELSE IF alt = "less" THEN OneMinus(NormCdf(z_stat))
    ELSE Twice(OneMinus(NormCdf(FAbs(z_stat))))

\* the p-value of the selected variant
PValue(z_stat, alt) ==
    IF alt = "greater" THEN OneMinus(NormCdf(z_stat))
    ELSE IF alt = "less" THEN NormCdf(z_stat)
    ELSE Twice(OneMinus(NormCdf(FAbs(z_stat))))

HypothesisTestProportion(s, n, p, a, alt) ==
    IF n = 0
    THEN Raise("ZeroDivisionError")               \* successes / trials
    ELSE LET z_stat == ZStat(s, n, p)
             p_value == PValue(z_stat, alt)
             reject == FLess(p_value, a)
         IN  Return([z_statistic |-> z_stat,
                     p_value |-> p_value,
                     reject_H0 |-> reject])

----------------------------------------------------------------------------
(* Arguments the entry points are called with.                             *)

\* capacity arrays given to calculate_lifetime, with the documented example
ExampleCapacity == <<20, 19, 18, 15, 10>>
Capacities == Columns((-1)..MaxCap, MaxLen) \cup {ExampleCapacity}
Thresholds == {5, DefaultThreshold, 10}

\* files given to load_battery_data: any subset of the three fields, each
\* field a column of any length up to MaxRows
LoadFiles ==
    {NotFound, Malformed} \cup
    {Mat(d) : d \in UNION {[D -> Columns(0..1, MaxRows)] : D \in SUBSET Fields}}

\* files a folder may hold for one unit
ExtractFiles ==
    {NotFound, Malformed,
     Mat([f \in {"capacity"} |-> <<10, 9, 7>>]),
     Mat([f \in {"cycle"} |-> <<1, 2, 3>>]),
     Mat([f \in {"cycle", "capacity"} |-> <<>>]),
     Mat([f \in {"cycle", "capacity"} |->
             IF f = "cycle" THEN <<1, 2, 3>> ELSE <<10, 9, 7>>]),
     Mat([f \in {"cycle", "capacity"} |->
             IF f = "cycle" THEN <<1, 2>> ELSE <<5, 5>>]),
     Mat([f \in Fields |->
             IF f = "cycle" THEN <<1, 2, 3>>
             ELSE IF f = "capacity" THEN <<8, 6, 5>> ELSE <<3, 3, 3>>])}

\* null proportions k / d
Proportions == {<<k, d>> : k \in 0..MaxDen, d \in 1..MaxDen} \cap
               {x \in (0..MaxDen) \X (1..MaxDen) : x[1] <= x[2]}
Alphas == {1000, DefaultAlpha, 50000}
Alternatives == {"greater", "less", "two-sided"}
\* (successes, trials) pairs, with the documented example 60 of 100
Counts == ((0..MaxTrials) \X (0..MaxTrials)) \cup {<<60, 100>>}
\* (successes, trials) of the first batch, with the documented example 7 of 10
BatchCounts == ((0..MaxTrials) \X (0..MaxTrials)) \cup {<<7, 10>>}

----------------------------------------------------------------------------
(* Initial states: one entry point, its arguments, nothing run yet.        *)

IdleLoader ==
    /\ capacity = <<>> /\ threshold = DefaultThreshold
    /\ file = NotFound /\ files = <<>> /\ num_batteries = 0

IdleLoop ==
    /\ i = 0 /\ lifetimes = <<>> /\ initial_capacities = <<>> /\ visited = {}

IdleBayes ==
    /\ prior_alpha = 1 /\ prior_beta = 1
    /\ successes2 = 0 /\ trials2 = 0 /\ posterior = <<>>

IdleCounts == successes = 0 /\ trials = 0

IdleTest == p0 = <<1, 2>> /\ alpha = DefaultAlpha /\ alternative = "greater"

InitLifetime ==
    /\ op = "calculate_lifetime"
    /\ capacity \in Capacities /\ threshold \in Thresholds
    /\ file = NotFound /\ files = <<>> /\ num_batteries = 0
    /\ IdleLoop /\ IdleBayes /\ IdleCounts /\ IdleTest

InitLoad ==
    /\ op = "load_battery_data"
    /\ file \in LoadFiles
    /\ capacity = <<>> /\ threshold = DefaultThreshold
    /\ files = <<>> /\ num_batteries = 0
    /\ IdleLoop /\ IdleBayes /\ IdleCounts /\ IdleTest

InitExtract ==
    /\ op = "extract_lifetimes_from_folder"
    /\ num_batteries \in 0..MaxBatteries
    /\ files \in [1..num_batteries -> ExtractFiles]
    /\ capacity = <<>> /\ threshold = DefaultThreshold /\ file = NotFound
    /\ IdleLoop /\ IdleBayes /\ IdleCounts /\ IdleTest

InitBayes ==
    /\ op = "bayesian_update"
    /\ prior_alpha \in 0..MaxPrior /\ prior_beta \in 0..MaxPrior
    /\ \E c \in BatchCounts : successes = c[1] /\ trials = c[2]
    /\ successes2 \in 0..MaxTrials /\ trials2 \in 0..MaxTrials
    /\ posterior = <<>>
    /\ IdleLoader /\ IdleLoop /\ IdleTest

InitTest ==
    /\ op = "hypothesis_test_proportion"
    /\ \E c \in Counts : successes = c[1] /\ trials = c[2]
    /\ p0 \in Proportions /\ alpha \in Alphas /\ alternative \in Alternatives
    /\ IdleLoader /\ IdleLoop /\ IdleBayes

Init ==
    /\ pc = "ready"
    /\ ret = Pending
    /\ \/ InitLifetime
       \/ InitLoad
       \/ InitExtract
       \/ InitBayes
       \/ InitTest

----------------------------------------------------------------------------
(* The entry points.                                                       *)

CallCalculateLifetime ==
    /\ op = "calculate_lifetime" /\ pc = "ready"
    /\ ret' = CalculateLifetime(capacity, threshold)
    /\ pc' = "done"
    /\ UNCHANGED <<op, loaderVars, loopVars, bayesVars, countVars, testVars>>

CallLoadBatteryData ==
    /\ op = "load_battery_data" /\ pc = "ready"
    /\ ret' = LoadBatteryData(file)
    /\ pc' = "done"
    /\ UNCHANGED <<op, loaderVars, loopVars, bayesVars, countVars, testVars>>

\* lines 51-54: the two empty lists and the start of range(1, num_batteries + 1)
ExtractBegin ==
    /\ op = "extract_lifetimes_from_folder" /\ pc = "ready"
    /\ lifetimes' = <<>> /\ initial_capacities' = <<>>
    /\ i' = 1
    /\ pc' = "loop"
    /\ UNCHANGED <<op, loaderVars, visited, bayesVars, countVars, testVars, ret>>

\* TryBody appending capacity[-1] as the initial capacity
TryBodyLastCapacity(f) ==
    LET data == LoadBatteryData(f)
    IN  IF data.exc # "None" THEN Raise(data.exc)
        ELSE LET lifetime == CalculateLifetime(data.val.capacity, DefaultThreshold)
             IN  IF lifetime.exc # "None" THEN Raise(lifetime.exc)
                 ELSE Return(<<lifetime.val,
                               data.val.capacity[Len(data.val.capacity)]>>)

\* what the try block of one iteration does for file f: the two values to
\* append, or the exception raised before anything was appended
TryBody(f) ==
    LET data == LoadBatteryData(f)
    IN  IF data.exc # "None" THEN Raise(data.exc)
        ELSE LET lifetime == CalculateLifetime(data.val.capacity, DefaultThreshold)
             IN  IF lifetime.exc # "None" THEN Raise(lifetime.exc)
                 ELSE Return(<<lifetime.val, data.val.capacity[1]>>)

\* ExtractIteration with a bare except: every failure is skipped
ExtractIterationCatchAll ==
    /\ op = "extract_lifetimes_from_folder" /\ pc = "loop"
    /\ i <= num_batteries
    /\ visited' = visited \cup {i}
    /\ LET body == TryBody(files[i])
       IN  IF body.exc = "None"
           THEN /\ lifetimes' = Append(lifetimes, body.val[1])
                /\ initial_capacities' = Append(initial_capacities, body.val[2])
           ELSE UNCHANGED <<lifetimes, initial_capacities>>
    /\ i' = i + 1
    /\ UNCHANGED <<op, pc, ret, loaderVars, bayesVars, countVars, testVars>>

\* lines 54-65: one iteration of the loop
ExtractIteration ==
    /\ op = "extract_lifetimes_from_folder" /\ pc = "loop"
    /\ i <= num_batteries
    /\ visited' = visited \cup {i}
    /\ LET body == TryBody(files[i])
       IN  IF body.exc = "None"
           THEN /\ lifetimes' = Append(lifetimes, body.val[1])
                /\ initial_capacities' = Append(initial_capacities, body.val[2])
                /\ i' = i + 1
                /\ UNCHANGED <<pc, ret>>
           ELSE IF body.exc = "FileNotFoundError"
           THEN /\ i' = i + 1                        \* except: continue
                /\ UNCHANGED <<lifetimes, initial_capacities, pc, ret>>
           ELSE /\ ret' = Raise(body.exc)            \* not caught
                /\ pc' = "done"
                /\ UNCHANGED <<i, lifetimes, initial_capacities>>
    /\ UNCHANGED <<op, loaderVars, bayesVars, countVars, testVars>>

\* line 67: np.array keeps the elements and their order
ExtractReturn ==
    /\ op = "extract_lifetimes_from_folder" /\ pc = "loop"
    /\ i > num_batteries
    /\ ret' = Return(<<lifetimes, initial_capacities>>)
    /\ pc' = "done"
    /\ UNCHANGED <<op, loaderVars, loopVars, bayesVars, countVars, testVars>>

\* bayesian_update(a, b, s, n)
BayesFirst ==
    /\ op = "bayesian_update" /\ pc = "ready"
    /\ posterior' = <<BayesianUpdate(prior_alpha, prior_beta, successes, trials)>>
    /\ pc' = "first"
    /\ UNCHANGED <<op, loaderVars, loopVars, prior_alpha, prior_beta,
                   successes2, trials2, countVars, testVars, ret>>

\* bayesian_update(result.alpha, result.beta, s2, n2)
BayesSecond ==
    /\ op = "bayesian_update" /\ pc = "first"
    /\ posterior' = Append(posterior,
           BayesianUpdate(posterior[1][1], posterior[1][2], successes2, trials2))
    /\ pc' = "second"
    /\ UNCHANGED <<op, loaderVars, loopVars, prior_alpha, prior_beta,
                   successes2, trials2, countVars, testVars, ret>>

\* bayesian_update(a, b, s + s2, n + n2)
BayesCombined ==
    /\ op = "bayesian_update" /\ pc = "second"
    /\ posterior' = Append(posterior,
           BayesianUpdate(prior_alpha, prior_beta,
                          successes + successes2, trials + trials2))
    /\ pc' = "combined"
    /\ UNCHANGED <<op, loaderVars, loopVars, prior_alpha, prior_beta,
                   successes2, trials2, countVars, testVars, ret>>

\* the two batches in the other order: (s2, n2) first, then (s, n)
BayesSwapped ==
    /\ op = "bayesian_update" /\ pc = "combined"
    /\ LET first == BayesianUpdate(prior_alpha, prior_beta, successes2, trials2)
       IN  posterior' = Append(posterior,
               BayesianUpdate(first[1], first[2], successes, trials))
    /\ ret' = Return(posterior')
    /\ pc' = "done"
    /\ UNCHANGED <<op, loaderVars, loopVars, prior_alpha, prior_beta,
                   successes2, trials2, countVars, testVars>>

CallHypothesisTestProportion ==
    /\ op = "hypothesis_test_proportion" /\ pc = "ready"
    /\ ret' = HypothesisTestProportion(successes, trials, p0, alpha, alternative)
    /\ pc' = "done"
    /\ UNCHANGED <<op, loaderVars, loopVars, bayesVars, countVars, testVars>>

Next ==
    \/ CallCalculateLifetime
    \/ CallLoadBatteryData
    \/ ExtractBegin
    \/ ExtractIteration
    \/ ExtractReturn
    \/ BayesFirst
    \/ BayesSecond
    \/ BayesCombined
    \/ BayesSwapped
    \/ CallHypothesisTestProportion

Spec == Init /\ [][Next]_vars

----------------------------------------------------------------------------
(* Properties of calculate_lifetime.                                       *)

LifetimeDone == op = "calculate_lifetime" /\ pc = "done"

\* capacity[j] < threshold * capacity[0], j 0-based
Below(cap, thr, j) == 10 * cap[j + 1] < thr * cap[1]

Crosses(cap, thr) == \E j \in 0..(Len(cap) - 1) : Below(cap, thr, j)

\* C1: when some element of a non-empty capacity sequence is strictly below
\* threshold * capacity[0], calculate_lifetime returns the smallest index
\* whose element is below that target: the element at the returned index is
\* below it and every element before it is not.
C1_FirstCrossing ==
    (LifetimeDone /\ Len(capacity) > 0 /\ Crosses(capacity, threshold)) =>
        /\ ret.exc = "None"
        /\ ret.val \in 0..(Len(capacity) - 1)
        /\ Below(capacity, threshold, ret.val)
        /\ \A j \in 0..(ret.val - 1) : ~Below(capacity, threshold, j)

C1_Witness ==
    /\ LifetimeDone
    /\ capacity = ExampleCapacity /\ threshold = DefaultThreshold
    /\ ret = Return(3)

\* C2: when no element of a non-empty capacity sequence is strictly below
\* threshold * capacity[0], calculate_lifetime returns len(capacity) - 1 and
\* raises nothing.
C2_Censored ==
    (LifetimeDone /\ Len(capacity) > 0 /\ ~Crosses(capacity, threshold)) =>
        ret = Return(Len(capacity) - 1)

C2_Witness ==
    /\ LifetimeDone
    /\ Len(capacity) = 3 /\ ~Crosses(capacity, threshold)
    /\ capacity[1] > 0
    /\ ret = Return(2)

----------------------------------------------------------------------------
(* Properties of extract_lifetimes_from_folder.                            *)

ExtractDone == op = "extract_lifetimes_from_folder" /\ pc = "done"

Units == 1..num_batteries

\* a record that holds the two required columns and a non-empty capacity
WellFormed(f) ==
    /\ f.kind = "Mat"
    /\ {"cycle", "capacity"} \subseteq DOMAIN f.data
    /\ Len(f.data["capacity"]) > 0

\* a record that exists and cannot be loaded or reduced
Failing(f) == f.kind # "NotFound" /\ ~WellFormed(f)

\* the units whose record exists
Present == {u \in Units : files[u].kind # "NotFound"}

\* the k-th smallest element of a set of unit indices
KthSmallest(P, k) == CHOOSE u \in P : Cardinality({v \in P : v <= u}) = k

\* the lifetime of a well-formed record at the default threshold: the first
\* index below the target, or the last index
LifetimeOf(cap) ==
    IF Crosses(cap, DefaultThreshold)
    THEN CHOOSE j \in 0..(Len(cap) - 1) :
            /\ Below(cap, DefaultThreshold, j)
            /\ \A m \in 0..(j - 1) : ~Below(cap, DefaultThreshold, m)
    ELSE Len(cap) - 1

\* C3: when every record among units 1..count is either not found or
\* well-formed, the call returns two sequences with one entry per present
\* unit, in ascending unit order: the k-th lifetime and the k-th initial
\* capacity are those of the k-th smallest present unit.
C3_OnePerPresentUnit ==
    (ExtractDone /\ \A u \in Units : ~Failing(files[u])) =>
        /\ ret.exc = "None"
        /\ Len(ret.val[1]) = Cardinality(Present)
        /\ Len(ret.val[2]) = Cardinality(Present)
        /\ Cardinality(Present) <= num_batteries
        /\ \A k \in 1..Cardinality(Present) :
              LET cap == files[KthSmallest(Present, k)].data["capacity"]
              IN  /\ ret.val[1][k] = LifetimeOf(cap)
                  /\ ret.val[2][k] = cap[1]

C3_Witness ==
    /\ ExtractDone
    /\ num_batteries = 3
    /\ Present = {1, 3}
    /\ files[1] # files[3]
    /\ ret.exc = "None"
    /\ Len(ret.val[1]) = 2

\* the exception a failing record raises
ExceptionOf(f) ==
    IF f.kind = "Malformed" THEN "ValueError"
    ELSE IF ~({"cycle", "capacity"} \subseteq DOMAIN f.data) THEN "KeyError"
    ELSE "IndexError"

FailingUnits == {u \in Units : Failing(files[u])}

\* C4: only a record-not-found failure is swallowed.  When some unit fails
\* in another way, the first such unit's exception reaches the caller, no
\* later unit is processed and no result is returned.
C4_OtherFailuresPropagate ==
    (op = "extract_lifetimes_from_folder" /\ FailingUnits # {}) =>
        LET u == CHOOSE x \in FailingUnits : \A y \in FailingUnits : x <= y
        IN  /\ visited \subseteq 1..u
            /\ pc = "done" =>
                  /\ ret = Raise(ExceptionOf(files[u]))
                  /\ visited = 1..u

C4_Witness ==
    /\ ExtractDone
    /\ num_batteries = 3
    /\ files[1].kind = "NotFound"
    /\ Failing(files[2])
    /\ WellFormed(files[3])
    /\ ret.exc = "KeyError"
    /\ visited = {1, 2}

----------------------------------------------------------------------------
(* Properties of load_battery_data.                                        *)

LoadDone == op = "load_battery_data" /\ pc = "done"

\* C8: a source record without 'cycle' or without 'capacity' makes the call
\* raise the missing-field error and return no record; a record with both
\* never fails, whether or not it holds 'impedance'.
C8_MissingField ==
    (LoadDone /\ file.kind = "Mat") =>
        IF {"cycle", "capacity"} \subseteq DOMAIN file.data
        THEN ret.exc = "None"
        ELSE ret = Raise("KeyError")

C8_Witness ==
    /\ LoadDone
    /\ file.kind = "Mat"
    /\ DOMAIN file.data = {"cycle", "impedance"}
    /\ ret = Raise("KeyError")

\* the columns of the source record have one common length
SourceLengthsAgree ==
    \A f \in DOMAIN file.data, g \in DOMAIN file.data :
        Len(file.data[f]) = Len(file.data[g])

\* C9 as stated: every returned record has three sequences of one length.
C9_EqualLengths ==
    (LoadDone /\ ret.exc = "None") =>
        /\ Len(ret.val.cycle) = Len(ret.val.capacity)
        /\ Len(ret.val.impedance) = Len(ret.val.capacity)

\* C9 amended: a substituted impedance is all zeros of the capacity's
\* length, and the three sequences of the returned record have one length
\* whenever the columns of the source record have one length.
C9_EqualLengthsOfEqualSource ==
    (LoadDone /\ ret.exc = "None") =>
        /\ "impedance" \notin DOMAIN file.data =>
              /\ Len(ret.val.impedance) = Len(ret.val.capacity)
              /\ \A k \in 1..Len(ret.val.impedance) : ret.val.impedance[k] = 0
        /\ SourceLengthsAgree =>
              /\ Len(ret.val.cycle) = Len(ret.val.capacity)
              /\ Len(ret.val.impedance) = Len(ret.val.capacity)

C9_Witness ==
    /\ LoadDone
    /\ ret.exc = "None"
    /\ DOMAIN file.data = {"cycle", "capacity"}
    /\ Len(file.data["cycle"]) = 2 /\ Len(file.data["capacity"]) = 2
    /\ ret.val.impedance = <<0, 0>>

----------------------------------------------------------------------------
(* Properties of bayesian_update.                                          *)

BayesCalled == op = "bayesian_update" /\ pc # "ready"

C5_Result ==
    (BayesCalled /\ prior_alpha > 0 /\ prior_beta > 0 /\ successes <= trials) =>
        /\ posterior[1] = <<prior_alpha + successes,
                            prior_beta + trials - successes>>
        /\ posterior[1][1] > 0
        /\ posterior[1][2] > 0

C5_InputsKept ==
    /\ prior_alpha' = prior_alpha /\ prior_beta' = prior_beta
    /\ successes' = successes /\ trials' = trials

\* C5: for positive priors and 0 <= successes <= trials, bayesian_update
\* returns (prior_alpha + successes, prior_beta + trials - successes), both
\* positive, and no step changes the arguments it was called with.
C5_ConjugateUpdate == []C5_Result /\ [][C5_InputsKept]_vars

C5_Witness ==
    /\ BayesCalled
    /\ prior_alpha = 1 /\ prior_beta = 1 /\ successes = 7 /\ trials = 10
    /\ posterior[1] = <<8, 4>>

\* C6: updating with (s, n) and then with (s2, n2) gives the same pair as
\* one update with (s + s2, n + n2), and so does updating in the other
\* order.
C6_Additive ==
    (op = "bayesian_update" /\ pc = "done") =>
        /\ posterior[2] = posterior[3]
        /\ posterior[4] = posterior[3]

C6_Witness ==
    /\ op = "bayesian_update" /\ pc = "done"
    /\ prior_alpha = 1 /\ prior_beta = 2
    /\ successes = 1 /\ trials = 3 /\ successes2 = 2 /\ trials2 = 2
    /\ posterior[2] = <<4, 4>>
    /\ posterior[3] = <<4, 4>>

----------------------------------------------------------------------------
(* Properties of hypothesis_test_proportion.                               *)

TestDone == op = "hypothesis_test_proportion" /\ pc = "done"

\* C7: with p0 = 0 or p0 = 1 and trials > 0 the call raises and returns no
\* result record.
C7_DomainError ==
    (TestDone /\ trials > 0 /\ (p0[1] = 0 \/ p0[1] = p0[2])) =>
        ret.exc \notin {"None", "Pending"}

\* -z
FNeg(z) ==
    CASE z.kind = "nan" -> NaN
      [] z.kind = "inf" -> NegInf
      [] z.kind = "-inf" -> PosInf
      [] OTHER -> Fin(-z.v)

\* P(Z <= z), P(Z >= z) and P(|Z| >= |z|) of a standard normal Z
LowerTail(z) == NormCdf(z)
UpperTail(z) == NormCdf(FNeg(z))
FSum(x, y) == IF x.kind = "nan" \/ y.kind = "nan" THEN NaN ELSE Fin(x.v + y.v)
TwoSided(z) == FSum(LowerTail(FNeg(FAbs(z))), UpperTail(FAbs(z)))

\* C10: the p-value is the upper tail of the z-statistic for 'greater', the
\* lower tail for 'less' and the two-sided probability for any other
\* alternative, and reject_H0 is true exactly when p_value < alpha.
C10_Variants ==
    (TestDone /\ ret.exc = "None") =>
        LET r == ret.val
        IN  /\ r.z_statistic = ZStat(successes, trials, p0)
            /\ alternative = "greater" => r.p_value = UpperTail(r.z_statistic)
            /\ alternative = "less" => r.p_value = LowerTail(r.z_statistic)
            /\ alternative \notin {"greater", "less"} =>
                  r.p_value = TwoSided(r.z_statistic)
            /\ r.reject_H0 = (r.p_value.kind = "fin" /\ r.p_value.v < alpha)

C10_Witness ==
    /\ TestDone
    /\ successes = 60 /\ trials = 100 /\ p0 = <<1, 2>>
    /\ alpha = DefaultAlpha /\ alternative = "greater"
    /\ ret = Return([z_statistic |-> Fin(20),
                     p_value |-> Fin(2275),
                     reject_H0 |-> TRUE])

====
